---- MODULE Spec2Model ----
(***************************************************************************)
(* A model of the arXiv fetch-enrich-score pipeline:                       *)
(*   server/python/analyze_papers.py  (network h-index lookup with cache)  *)
(*   server/python/paper_analyzer.py  (simulated h-index, thread pool)     *)
(* Scores are integers: sub-scores in millionths, reported (rounded)       *)
(* scores in hundredths.  Dates are records [y, m, d].                     *)
(***************************************************************************)
EXTENDS Integers, Sequences, FiniteSets, TLC

VARIABLES
    prog,           \* which entry point runs: "batch", "run" (analyze_papers.py), "pa" (paper_analyzer.py)
    svc,            \* the answers the reputation service can give in this run
    keyword_weights, \* the keyword table handed to process_paper
    papers,         \* the records being processed (batch input / records of the current window)
    pp,             \* per record: the state of its process_paper call
    at,             \* per record: the get_author_info_single threads of its author pool
    HINDEX_CACHE,   \* author name -> cached h_index
    CACHE_FILE,     \* the cache as last written by save_hindex_cache
    counts,         \* the counts dictionary handed to process_paper
    out,            \* what process_papers_batch returned
    bpc,            \* control state of the entry point
    catalog,        \* the result lists the literature index can return in this run
    base_date,      \* --base-date
    months_back,    \* --months
    max_papers,     \* --max-papers
    batch_size,     \* --batch-size (paper_analyzer.py)
    month,          \* the number of windows finished
    cur,            \* the record the window loop is processing (0: none)
    month_papers,   \* the rows collected for the current window
    paper_count,    \* analyze_papers' paper_count
    results,        \* month key -> bucket
    performance,    \* the run-level performance dictionary
    queried,        \* the date filters sent to the literature index, in order
    raised,         \* how many records of the run were dropped because processing raised
    config_files,   \* per loader: what its backing file holds
    config_caches,  \* per loader: KEYWORDS_CACHE / COMMERCIAL_METRICS_CACHE
    lru,            \* the memo of @lru_cache on load_keywords
    callers,        \* the threads calling the loaders
    finished,       \* per loader: how many of its calls have returned
    fields,         \* --fields (paper_analyzer.py)
    workers,        \* the max_workers argument of process_papers_batch
    beyond_cap      \* the terms that the order of set(...) puts after the first max_title_terms

inputs ==
    <<prog, svc, keyword_weights, catalog, base_date, months_back, max_papers, batch_size,
      fields, workers, beyond_cap>>

cachevars == <<HINDEX_CACHE, CACHE_FILE>>

loopvars == <<month, cur, month_papers, paper_count, results, performance, queried>>

loadvars == <<config_files, config_caches, lru, callers, finished>>

vars == <<inputs, papers, pp, at, cachevars, counts, out, bpc, loopvars, raised, loadvars>>

----------------------------------------------------------------------------
(* Bounds of the model *)

MaxBatch == 2
MaxAuthors == 2

(* Program constants *)

API_SEMAPHORE == 10
AuthorLimit == 5
AuthorPoolWorkers == 5
max_workers == 15
SaveEvery == 20
max_possible_score == 10
NullH == -1

----------------------------------------------------------------------------
(* Helpers *)

Min(a, b) == IF a <= b THEN a ELSE b

RECURSIVE SumOver(_, _)
SumOver(S, f) ==
    IF S = {} THEN 0
    ELSE LET x == CHOOSE y \in S : TRUE IN f[x] + SumOver(S \ {x}, f)

Take(s, n) == SubSeq(s, 1, Min(n, Len(s)))

SeqsUpTo(S, n) == UNION {[1..k -> S] : k \in 0..n}

----------------------------------------------------------------------------
(* Configuration tables and inputs *)

Names == {"Yoshua Bengio", "a1"}

prominent_authors == ("Yoshua Bengio" :> 115)

KEYWORDS == ("ai" :> 4) @@ ("nlp" :> 3)

Texts == {<<"AI">>, <<"ai", "nlp", "ai">>}

Lower(w) == IF w = "AI" THEN "ai" ELSE IF w = "NLP" THEN "nlp" ELSE w

HValues == {3}

(* What requests.get(...).json() can come to (lines 559-562):                *)
(*   "ok"        a match whose hIndex is a number                            *)
(*   "malformed" a match whose hIndex is null                                *)
(*   "nodata"    a JSON body with no "data" or an empty one (an error body)  *)
(*   "raise"     a timeout, a connection error or a body that is not JSON    *)
Responses ==
    {[kind |-> "ok", h |-> h] : h \in HValues}
        \cup {[kind |-> "malformed", h |-> NullH],
              [kind |-> "nodata", h |-> 0], [kind |-> "raise", h |-> 0]}

has_data(r) == r.kind \in {"ok", "malformed"}

(* Answers with an error status and a JSON error body: requests.get returns them  *)
(* as it returns any other (line 559 neither tests the status nor uses the        *)
(* session of get_session), and the body has no "data"                            *)
(*   "transient" a status of 429, 500, 502, 503 or 504                            *)
(*   "rejected"  another status outside 2xx                                       *)
StatusResponses ==
    {[kind |-> "ok", h |-> 3], [kind |-> "transient", h |-> 0],
     [kind |-> "rejected", h |-> 0]}

(* Line 562 is false: a JSON body without "data", or with an empty list *)
no_results(r) == r.kind \in {"nodata", "transient", "rejected"}

----------------------------------------------------------------------------
(* The configuration loaders: load_keywords and load_commercial_metrics *)

MaxCallers == 2
MaxCalls == 2

pipevars == <<inputs, papers, pp, at, cachevars, counts, out, bpc, loopvars, raised>>

Loaders == {"load_keywords", "load_commercial_metrics"}

None == "None"

(* What the loaders return: the table of the backing file ("custom": a table of    *)
(* the user, "default": the table the loader wrote), or, from the except clause,   *)
(* the minimal table ("minimal").  A backing file can also be "absent",            *)
(* "unparseable" (not JSON) or "partial" (opened for writing, not yet dumped).     *)
Tables == {"custom", "default"}

IdleCaller ==
    [pc |-> "idle", f |-> None, ret |-> None, loaded |-> None, calls |-> 0,
     first |-> FALSE, touched |-> FALSE]

(* The call returns value; lru_cache keeps the first result stored for the key *)
Return(t, value) ==
    /\ callers' = [callers EXCEPT ![t].pc = "idle", ![t].ret = value]
    /\ finished' = [finished EXCEPT ![callers[t].f] = @ + 1]
    /\ lru' = IF callers[t].f = "load_keywords" /\ lru = None THEN value ELSE lru

(* Thread t calls loader f; a hit of lru_cache returns the memo without a call *)
Call(t, f) ==
    /\ callers[t].pc = "idle"
    /\ callers[t].calls < MaxCalls
    /\ LET hit == f = "load_keywords" /\ lru # None
       IN  /\ callers' = [callers EXCEPT ![t] =
                            [pc |-> IF hit THEN "idle" ELSE "check",
                             f |-> f,
                             ret |-> IF hit THEN lru ELSE None,
                             loaded |-> None,
                             calls |-> callers[t].calls + 1,
                             first |-> finished[f] = 0,
                             touched |-> FALSE]]
           /\ finished' = IF hit THEN [finished EXCEPT ![f] = @ + 1] ELSE finished
    /\ UNCHANGED <<config_files, config_caches, lru, pipevars>>

(* Lines 104-106, 224-226: under the lock, the cache is returned if it is set *)
CheckCache(t) ==
    /\ callers[t].pc = "check"
    /\ IF config_caches[callers[t].f] # None
       THEN Return(t, config_caches[callers[t].f])
       ELSE /\ callers' = [callers EXCEPT ![t].pc = "probe"]
            /\ UNCHANGED <<lru, finished>>
    /\ UNCHANGED <<config_files, config_caches, pipevars>>

(* Lines 108, 228: FILE.exists(), with no lock held *)
ProbeFile(t) ==
    /\ callers[t].pc = "probe"
    /\ callers' = [callers EXCEPT ![t].pc =
                    IF config_files[callers[t].f] = "absent" THEN "create" ELSE "read"]
    /\ UNCHANGED <<config_files, config_caches, lru, finished, pipevars>>

(* Lines 109-110, 229-230: open and json.load; what json.load raises is caught at *)
(* lines 187-194, 257-263, which return the minimal table                        *)
ReadFile(t) ==
    /\ callers[t].pc = "read"
    /\ IF config_files[callers[t].f] \in Tables
       THEN /\ callers' = [callers EXCEPT ![t].pc = "store",
                                          ![t].loaded = config_files[callers[t].f],
                                          ![t].touched = TRUE]
            /\ UNCHANGED <<lru, finished>>
       ELSE /\ callers' = [callers EXCEPT ![t].pc = "idle", ![t].ret = "minimal",
                                          ![t].touched = TRUE]
            /\ finished' = [finished EXCEPT ![callers[t].f] = @ + 1]
            /\ lru' = IF callers[t].f = "load_keywords" /\ lru = None
                      THEN "minimal" ELSE lru
    /\ UNCHANGED <<config_files, config_caches, pipevars>>

(* Lines 182, 251: open(FILE, 'w') creates the file, or empties it *)
CreateFile(t) ==
    /\ callers[t].pc = "create"
    /\ config_files' = [config_files EXCEPT ![callers[t].f] = "partial"]
    /\ callers' = [callers EXCEPT ![t].pc = "dump", ![t].touched = TRUE]
    /\ UNCHANGED <<config_caches, lru, finished, pipevars>>

(* Lines 183, 252: json.dump of the default table, and the close of the file *)
DumpDefaults(t) ==
    /\ callers[t].pc = "dump"
    /\ config_files' = [config_files EXCEPT ![callers[t].f] = "default"]
    /\ callers' = [callers EXCEPT ![t].pc = "store", ![t].loaded = "default"]
    /\ UNCHANGED <<config_caches, lru, finished, pipevars>>

(* Lines 111-113, 184-186, 231-233, 253-255: under the lock, the cache is set *)
StoreCache(t) ==
    /\ callers[t].pc = "store"
    /\ config_caches' = [config_caches EXCEPT ![callers[t].f] = callers[t].loaded]
    /\ Return(t, callers[t].loaded)
    /\ UNCHANGED <<config_files, pipevars>>

(* A run that builds no query of its own *)
NoFields == fields = <<>> /\ beyond_cap = {}

(* Lines 265-266: the module has been imported, each loader called once *)
ImportDone ==
    /\ config_files = [f \in Loaders |-> "default"]
    /\ config_caches = [f \in Loaders |-> "default"]
    /\ lru = "default"
    /\ callers = <<>>
    /\ finished = [f \in Loaders |-> 1]

NextConfig ==
    \/ \E t \in DOMAIN callers : \E f \in Loaders : Call(t, f)
    \/ \E t \in DOMAIN callers : CheckCache(t)
    \/ \E t \in DOMAIN callers : ProbeFile(t)
    \/ \E t \in DOMAIN callers : ReadFile(t)
    \/ \E t \in DOMAIN callers : CreateFile(t)
    \/ \E t \in DOMAIN callers : DumpDefaults(t)
    \/ \E t \in DOMAIN callers : StoreCache(t)

----------------------------------------------------------------------------
(* Scoring engine *)

CountMatches(keyword, text) ==
    Cardinality({i \in DOMAIN text : Lower(text[i]) = Lower(keyword)})

matched_tags(text, keywords) ==
    {k \in DOMAIN keywords : CountMatches(k, text) > 0}

calculate_score(text, keywords) ==
    LET total_score ==
            SumOver(matched_tags(text, keywords),
                    [k \in DOMAIN keywords |-> CountMatches(k, text) * keywords[k]])
    IN  Min(5000000, (total_score * 5000000) \div max_possible_score)

LogTable ==
    <<1039720, 1647918, 2079441, 2414156, 2687639, 2918865, 3119162,
      3295836, 3453877, 3596842, 3727359, 3847424, 3958585, 4062075,
      4158883, 4249820, 4335557, 4416658, 4493598, 4566783, 4636563,
      4703241, 4767080, 4828313, 4887144, 4943755, 4998306>>

author_score_of(total_h_index) ==
    IF total_h_index > 0
    THEN IF total_h_index > Len(LogTable) THEN 5000000
         ELSE Min(5000000, LogTable[total_h_index])
    ELSE 0

round2(micro) == (micro + 5000) \div 10000

(* A variant that weighs the two sub-scores equally *)
total_score_of_even(relevance_score, author_score) ==
    (5 * relevance_score + 5 * author_score) \div 10

total_score_of(relevance_score, author_score) ==
    (7 * relevance_score + 3 * author_score) \div 10

----------------------------------------------------------------------------
(* Records of the literature index and the state of their processing *)

Date(y, m, d) == [y |-> y, m |-> m, d |-> d]

NoDate == Date(0, 1, 1)

(* A record whose extraction raises (a field that is None) *)
BadRecord == [authors |-> <<>>, text |-> <<>>, bad |-> TRUE, published |-> NoDate]

RecordsOf(authorLists, dates) ==
    {[authors |-> a, text |-> t, bad |-> FALSE, published |-> d] :
        a \in authorLists, t \in Texts, d \in dates}
        \cup {BadRecord}

PaperRecords == RecordsOf(SeqsUpTo(Names, MaxAuthors), {NoDate})

NoRow == [idx |-> 0, relevance_score |-> 0, author_score |-> 0, total_score |-> 0]

Queued == [pc |-> "queued", ok |-> FALSE, row |-> NoRow]

IdleThread ==
    [pc |-> "idle", h |-> 0, prominent |-> FALSE, asked |-> FALSE, answer |-> "none"]

CacheChoices == {<<>>, ("Yoshua Bengio" :> 9) @@ ("a1" :> 7)}

(* The reputation queries in flight: threads between requests.get and its return *)
InFlight ==
    Cardinality({ia \in {<<i, a>> : i \in DOMAIN at, a \in 1..AuthorLimit} :
                    /\ ia[2] \in DOMAIN at[ia[1]]
                    /\ at[ia[1]][ia[2]].pc = "query"})

Executing == {i \in DOMAIN pp : pp[i].pc = "authors"}

----------------------------------------------------------------------------
(* get_author_info_single *)

save_hindex_cache(cache) == cache

(* Lines 534-554: the known-author table, then the cache, else the request is sent *)
(* A variant that consults the cache before the known-author table *)
lookup_order_cache_first(author_name, cache) ==
    IF author_name \in DOMAIN cache
    THEN [pc |-> "done", h |-> cache[author_name],
          prominent |-> FALSE, asked |-> FALSE, answer |-> "none"]
    ELSE IF prominent_authors # <<>> /\ author_name \in DOMAIN prominent_authors
    THEN [pc |-> "done", h |-> prominent_authors[author_name],
          prominent |-> TRUE, asked |-> FALSE, answer |-> "none"]
    ELSE [pc |-> "query", h |-> 0, prominent |-> FALSE, asked |-> TRUE, answer |-> "none"]

lookup_order(author_name, cache) ==
    IF prominent_authors # <<>> /\ author_name \in DOMAIN prominent_authors
    THEN [pc |-> "done", h |-> prominent_authors[author_name],
          prominent |-> TRUE, asked |-> FALSE, answer |-> "none"]
    ELSE IF author_name \in DOMAIN cache
    THEN [pc |-> "done", h |-> cache[author_name],
          prominent |-> FALSE, asked |-> FALSE, answer |-> "none"]
    ELSE [pc |-> "query", h |-> 0, prominent |-> FALSE, asked |-> TRUE, answer |-> "none"]

Resolve(i, a) ==
    /\ pp[i].pc = "authors"
    /\ at[i][a].pc = "idle"
    /\ at' = [at EXCEPT ![i][a] = lookup_order(papers[i].authors[a], HINDEX_CACHE)]
    /\ UNCHANGED <<loadvars, inputs, papers, pp, cachevars, counts, out, bpc, loopvars, raised>>

(* A variant that stores the zero placeholder after an exception as well *)
cache_after_any(author_name, r, cache) ==
    IF has_data(r) THEN (author_name :> r.h) @@ cache
    ELSE (author_name :> 0) @@ cache

(* Lines 556-588: the answer of the service, or the exception of the request *)
cache_after(author_name, r, cache) ==
    IF has_data(r) THEN (author_name :> r.h) @@ cache
    ELSE IF no_results(r) THEN (author_name :> 0) @@ cache
    ELSE cache

(* Lines 575-576: the cache is saved after an insert that makes its size a        *)
(* multiple of 20                                                                 *)
starts_save(r, cache) == has_data(r) /\ Cardinality(DOMAIN cache) % SaveEvery = 0

(* Line 517: open(CACHE_FILE, 'w') empties the file *)
file_after(r, cache, file) == IF starts_save(r, cache) THEN <<>> ELSE file

Respond(i, a) ==
    /\ at[i][a].pc = "query"
    /\ \E r \in svc :
        LET author_name == papers[i].authors[a]
            cache == cache_after(author_name, r, HINDEX_CACHE)
        IN  /\ HINDEX_CACHE' = cache
            /\ CACHE_FILE' = file_after(r, cache, CACHE_FILE)
            /\ at' = [at EXCEPT ![i][a] =
                        [pc |-> IF starts_save(r, cache) THEN "saving" ELSE "done",
                         h |-> IF has_data(r) THEN r.h ELSE 0,
                         prominent |-> FALSE, asked |-> TRUE, answer |-> r.kind]]
    /\ UNCHANGED <<loadvars, inputs, papers, pp, counts, out, bpc, loopvars, raised>>

(* Line 518: json.dump walks the cache and writes it.  If another thread has put  *)
(* a new name in the cache since the file was opened, either the walk had not     *)
(* begun and writes the larger cache, or it raises RuntimeError (dictionary       *)
(* changed size during iteration), which line 519 catches: the file stays as      *)
(* open() left it.                                                                *)
SaveCache(i, a) ==
    /\ at[i][a].pc = "saving"
    /\ \/ CACHE_FILE' = save_hindex_cache(HINDEX_CACHE)
       \/ /\ Cardinality(DOMAIN HINDEX_CACHE) % SaveEvery # 0
          /\ CACHE_FILE' = CACHE_FILE
    /\ at' = [at EXCEPT ![i][a].pc = "done"]
    /\ UNCHANGED <<loadvars, inputs, papers, pp, HINDEX_CACHE, counts, out, bpc, loopvars,
                   raised>>

----------------------------------------------------------------------------
(* get_author_info (the definition in force, lines 590-640) and process_paper *)

authors_to_process(authors) == Take(authors, AuthorLimit)

(* Lines 626-635; sum() raises on an h_index that is not a number *)
get_author_info(threads) ==
    IF \E a \in DOMAIN threads : threads[a].h = NullH
    THEN [raised |-> TRUE, author_score |-> 0]
    ELSE [raised |-> FALSE,
          author_score |->
              author_score_of(SumOver(DOMAIN threads,
                                      [a \in DOMAIN threads |-> threads[a].h]))]

(* Lines 758-769: the author score of the row, 2.0 when get_author_info raised *)
paper_author_score(threads) ==
    LET author_result == get_author_info(threads)
    IN  IF author_result.raised THEN 2000000 ELSE author_result.author_score

(* Lines 753-777 *)
paper_info(i, paper, threads) ==
    LET relevance_score == calculate_score(paper.text, keyword_weights)
        author_score == paper_author_score(threads)
    IN  [idx |-> i,
         relevance_score |-> round2(relevance_score),
         author_score |-> round2(author_score),
         total_score |-> round2(total_score_of(relevance_score, author_score))]

(* Lines 795-796 and 801-802: the key tested is "counts" *)
count_up(c, key) ==
    IF "counts" \in DOMAIN c THEN [c EXCEPT ![key] = c[key] + 1] ELSE c

NewCounts == [processed |-> 0, errors |-> 0]

NoPerformance == [papers_processed |-> 0, papers_found |-> 0, errors |-> 0]

(* A variant of process_paper without its try/except: the exception of a record   *)
(* escapes to the caller, and the records behind it are never processed.          *)
BeginPaper_unguarded(i, c) ==
    IF papers[i].bad
    THEN /\ pp' = [k \in DOMAIN pp |->
                    IF k >= i THEN [pc |-> "done", ok |-> FALSE, row |-> NoRow]
                    ELSE pp[k]]
         /\ counts' = c
         /\ at' = at
         /\ raised' = raised + 1
    ELSE IF papers[i].authors = <<>>
    THEN /\ pp' = [pp EXCEPT ![i] =
                    [pc |-> "done", ok |-> TRUE, row |-> paper_info(i, papers[i], <<>>)]]
         /\ counts' = count_up(c, "processed")
         /\ at' = at
         /\ raised' = raised
    ELSE /\ pp' = [pp EXCEPT ![i].pc = "authors"]
         /\ at' = [at EXCEPT ![i] =
                    [a \in DOMAIN authors_to_process(papers[i].authors) |-> IdleThread]]
         /\ counts' = c
         /\ raised' = raised

(* The first part of process_paper, up to the submission of the author threads *)
BeginPaper(i, c) ==
    IF papers[i].bad
    THEN /\ pp' = [pp EXCEPT ![i] = [pc |-> "done", ok |-> FALSE, row |-> NoRow]]
         /\ counts' = count_up(c, "errors")
         /\ at' = at
         /\ raised' = raised + 1
    ELSE IF papers[i].authors = <<>>
    THEN /\ pp' = [pp EXCEPT ![i] =
                    [pc |-> "done", ok |-> TRUE, row |-> paper_info(i, papers[i], <<>>)]]
         /\ counts' = count_up(c, "processed")
         /\ at' = at
         /\ raised' = raised
    ELSE /\ pp' = [pp EXCEPT ![i].pc = "authors"]
         /\ at' = [at EXCEPT ![i] =
                    [a \in DOMAIN authors_to_process(papers[i].authors) |-> IdleThread]]
         /\ counts' = c
         /\ raised' = raised

(* The rest of process_paper, once every author thread has returned *)
FinishPaper(i) ==
    /\ pp[i].pc = "authors"
    /\ \A a \in DOMAIN at[i] : at[i][a].pc = "done"
    /\ pp' = [pp EXCEPT ![i] =
                [pc |-> "done", ok |-> TRUE, row |-> paper_info(i, papers[i], at[i])]]
    /\ counts' = count_up(counts, "processed")
    /\ UNCHANGED <<loadvars, inputs, papers, at, cachevars, out, bpc, loopvars, raised>>

----------------------------------------------------------------------------
(* process_papers_batch *)

RECURSIVE filter_none(_, _)
filter_none(states, i) ==
    IF i > Len(states) THEN <<>>
    ELSE (IF states[i].ok THEN <<states[i].row>> ELSE <<>>) \o filter_none(states, i + 1)

(* A variant in which a record is started whether or not a worker is free *)
StartPaper_unbounded(i) ==
    /\ prog = "batch"
    /\ bpc = "running"
    /\ pp[i].pc = "queued"
    /\ \A j \in 1..(i - 1) : pp[j].pc # "queued"
    /\ BeginPaper(i, counts)
    /\ UNCHANGED <<loadvars, inputs, papers, cachevars, out, bpc, loopvars>>

(* A pool worker takes the next record of executor.map and runs process_paper on it *)
StartPaper(i) ==
    /\ prog = "batch"
    /\ bpc = "running"
    /\ pp[i].pc = "queued"
    /\ \A j \in 1..(i - 1) : pp[j].pc # "queued"
    /\ Cardinality(Executing) < workers
    /\ BeginPaper(i, counts)
    /\ UNCHANGED <<loadvars, inputs, papers, cachevars, out, bpc, loopvars>>

(* A variant that hands the rows back last record first *)
BatchReturn_reversed ==
    /\ prog = "batch"
    /\ bpc = "running"
    /\ \A i \in DOMAIN pp : pp[i].pc = "done"
    /\ out' = LET rows == filter_none(pp, 1)
              IN  [j \in DOMAIN rows |-> rows[Len(rows) + 1 - j]]
    /\ bpc' = "returned"
    /\ UNCHANGED <<loadvars, inputs, papers, pp, at, cachevars, counts, loopvars, raised>>

(* Line 824: list(filter(None, executor.map(...))), the results in input order *)
BatchReturn ==
    /\ prog = "batch"
    /\ bpc = "running"
    /\ \A i \in DOMAIN pp : pp[i].pc = "done"
    /\ out' = filter_none(pp, 1)
    /\ bpc' = "returned"
    /\ UNCHANGED <<loadvars, inputs, papers, pp, at, cachevars, counts, loopvars, raised>>

InitBatchPool(ps, cache, answers, pool) ==
    /\ ImportDone
    /\ NoFields
    /\ workers = pool
    /\ prog = "batch"
    /\ svc = answers
    /\ catalog = {}
    /\ base_date = NoDate
    /\ months_back = 0
    /\ max_papers = 0
    /\ batch_size = 0
    /\ month = 0
    /\ cur = 0
    /\ month_papers = <<>>
    /\ paper_count = 0
    /\ results = <<>>
    /\ performance = NoPerformance
    /\ queried = <<>>
    /\ raised = 0
    /\ papers = ps
    /\ pp = [i \in DOMAIN ps |-> Queued]
    /\ at = [i \in DOMAIN ps |-> <<>>]
    /\ HINDEX_CACHE = cache
    /\ CACHE_FILE = cache
    /\ counts = NewCounts
    /\ out = <<>>
    /\ bpc = "running"

(* process_papers_batch called without max_workers: the default, 15 *)
InitBatchWith(ps, cache, answers) == InitBatchPool(ps, cache, answers, max_workers)

InitBatch ==
    /\ keyword_weights = KEYWORDS
    /\ \E ps \in SeqsUpTo(PaperRecords, MaxBatch), cache \in CacheChoices :
        InitBatchWith(ps, cache, Responses)

NextBatch ==
    \/ \E i \in DOMAIN pp : StartPaper(i)
    \/ \E i \in DOMAIN pp : \E a \in DOMAIN at[i] : Resolve(i, a)
    \/ \E i \in DOMAIN pp : \E a \in DOMAIN at[i] : Respond(i, a)
    \/ \E i \in DOMAIN pp : FinishPaper(i)
    \/ BatchReturn

SpecBatch == InitBatch /\ [][NextBatch]_vars

(* Three records of four unknown authors each, the service answering 50 for everyone *)
LoadPapers ==
    <<[authors |-> <<"n11", "n12", "n13", "n14">>, text |-> <<"AI">>,
       bad |-> FALSE, published |-> NoDate],
      [authors |-> <<"n21", "n22", "n23", "n24">>, text |-> <<"AI">>,
       bad |-> FALSE, published |-> NoDate],
      [authors |-> <<"n31", "n32", "n33", "n34">>, text |-> <<"AI">>,
       bad |-> FALSE, published |-> NoDate]>>

InitLoad ==
    /\ keyword_weights = KEYWORDS
    /\ InitBatchWith(LoadPapers, <<>>, {[kind |-> "ok", h |-> 50]})

SpecLoad == InitLoad /\ [][NextBatch]_vars

----------------------------------------------------------------------------
(* Dates and windows *)

IsLeap(y) == (y % 4 = 0 /\ y % 100 # 0) \/ y % 400 = 0

DaysInMonth(y, m) ==
    IF m = 2 THEN (IF IsLeap(y) THEN 29 ELSE 28)
    ELSE IF m \in {4, 6, 9, 11} THEN 30 ELSE 31

(* date - relativedelta(months=k): the month moves, the day is cut to the month's length *)
minus_months(date, k) ==
    LET t == date.y * 12 + (date.m - 1) - k
        y == t \div 12
        m == (t % 12) + 1
    IN  Date(y, m, Min(date.d, DaysInMonth(y, m)))

(* strftime("%Y%m%d") and strftime("%Y-%m"), as the numbers their digits spell *)
strftime_Ymd(date) == date.y * 10000 + date.m * 100 + date.d

(* A variant that keys a window by its year alone *)
strftime_Y(date) == date.y * 100

strftime_Ym(date) == date.y * 100 + date.m

first_of_next_month(date) ==
    IF date.m = 12 THEN Date(date.y + 1, 1, 1) ELSE Date(date.y, date.m + 1, 1)

(* analyze_papers.py lines 880-893: submittedDate:[<start>0000 TO <end>2359];    *)
(* a bound of the filter is kept as its day (YYYYMMDD) and its time (HHMM)       *)
ap_window(base, k) ==
    LET month_start == minus_months(base, k + 1)
        month_end == minus_months(base, k)
    IN  [key |-> strftime_Ym(month_start),
         start |-> month_start,
         end |-> month_end,
         first_day |-> strftime_Ymd(month_start), first_hm |-> 0,
         last_day |-> strftime_Ymd(month_end), last_hm |-> 2359]

(* A variant that borrows a year once, with an if in the place of the while *)
wrap_month_once(year, mon) ==
    IF mon <= 0 THEN Date(year - 1, mon + 12, 1) ELSE Date(year, mon, 1)

(* paper_analyzer.py lines 48-68 *)
RECURSIVE wrap_month(_, _)
wrap_month(year, mon) ==
    IF mon <= 0 THEN wrap_month(year - 1, mon + 12) ELSE Date(year, mon, 1)

get_month_range(base, months) ==
    [i \in 1..months |-> wrap_month(base.y, base.m - (i - 1))]

(* paper_analyzer.py lines 91-98 and 184: submittedDate:[<start> TO <end>], both days *)
pa_window(month_date) ==
    [key |-> strftime_Ym(month_date),
     start |-> month_date,
     end |-> first_of_next_month(month_date),
     first_day |-> strftime_Ymd(month_date), first_hm |-> 0,
     last_day |-> strftime_Ymd(first_of_next_month(month_date)), last_hm |-> 0]

(* An entry of the index becomes a record published in the window or right after it *)
Entries(authorLists, texts, whens) ==
    {[authors |-> a, text |-> t, bad |-> FALSE, when |-> w] :
        a \in authorLists, t \in texts, w \in whens}
        \cup {[authors |-> <<>>, text |-> <<>>, bad |-> TRUE, when |-> "in"]}

publish(e, w) ==
    [authors |-> e.authors, text |-> e.text, bad |-> e.bad,
     published |->
        IF e.when = "in" THEN w.start
        ELSE IF e.when = "after" THEN w.end
        ELSE minus_months(w.end, -1)]

----------------------------------------------------------------------------
(* The ordering of a bucket: list.sort(key=total_score, reverse=True), which is stable *)

RECURSIVE insert_desc(_, _)
insert_desc(sorted, row) ==
    IF sorted = <<>> THEN <<row>>
    ELSE IF Head(sorted).total_score >= row.total_score
    THEN <<Head(sorted)>> \o insert_desc(Tail(sorted), row)
    ELSE <<row>> \o sorted

RECURSIVE sort_desc(_)
sort_desc(rows) ==
    IF rows = <<>> THEN <<>>
    ELSE insert_desc(sort_desc(SubSeq(rows, 1, Len(rows) - 1)), rows[Len(rows)])

----------------------------------------------------------------------------
(* analyze_papers.analyze_papers: one window after another, one record after another *)

NextIndex == Cardinality({i \in DOMAIN pp : pp[i].pc # "queued"}) + 1

(* Lines 879-911: the query of the window; the index answers with at most max_results *)
RunBeginMonth ==
    /\ prog = "run"
    /\ bpc = "month"
    /\ month < months_back
    /\ LET w == ap_window(base_date, month)
       IN  /\ queried' = Append(queried, w)
           /\ \E es \in catalog :
                /\ Len(es) <= max_papers
                /\ papers' = [i \in DOMAIN es |-> publish(es[i], w)]
                /\ pp' = [i \in DOMAIN es |-> Queued]
                /\ at' = [i \in DOMAIN es |-> <<>>]
    /\ month_papers' = <<>>
    /\ paper_count' = 0
    /\ cur' = 0
    /\ bpc' = "loop"
    /\ UNCHANGED <<loadvars, inputs, cachevars, counts, out, month, results, performance, raised>>

(* Lines 916-918: the next record of client.results(search) goes through process_paper *)
RunTakePaper ==
    /\ prog = "run"
    /\ bpc = "loop"
    /\ cur = 0
    /\ NextIndex <= Len(papers)
    /\ BeginPaper(NextIndex, NewCounts)
    /\ cur' = NextIndex
    /\ UNCHANGED <<loadvars, inputs, papers, cachevars, out, bpc, month, month_papers,
                   paper_count, results, performance, queried>>

(* Lines 919-927 *)
RunCollect ==
    /\ prog = "run"
    /\ bpc = "loop"
    /\ cur # 0
    /\ pp[cur].pc = "done"
    /\ LET paper_data == pp[cur].ok
           count == IF paper_data THEN paper_count + 1 ELSE paper_count
       IN  /\ month_papers' =
                IF paper_data THEN Append(month_papers, pp[cur].row) ELSE month_papers
           /\ performance' =
                IF paper_data
                THEN [performance EXCEPT !.papers_processed = @ + 1]
                ELSE performance
           /\ paper_count' = count
           /\ bpc' = IF count >= max_papers THEN "end" ELSE "loop"
    /\ cur' = 0
    /\ UNCHANGED <<loadvars, inputs, papers, pp, at, cachevars, counts, out, month, results,
                   queried, raised>>

(* Lines 935-938: the index raises while the window is read *)
RunFetchRaise ==
    /\ prog = "run"
    /\ bpc = "loop"
    /\ cur = 0
    /\ performance' = [performance EXCEPT !.errors = @ + 1]
    /\ bpc' = "end"
    /\ UNCHANGED <<loadvars, inputs, papers, pp, at, cachevars, counts, out, month, cur,
                   month_papers, paper_count, results, queried, raised>>

ap_bucket(rows) == [papers |-> sort_desc(rows), papers_found |-> Len(rows)]

(* Lines 940-954 *)
(* A variant that closes the window while a record is still being processed *)
RunEndMonth_early ==
    /\ prog = "run"
    /\ bpc \in {"end", "loop"}
    /\ results' = (queried[Len(queried)].key :> ap_bucket(month_papers)) @@ results
    /\ performance' = [performance EXCEPT !.papers_found = @ + Len(month_papers)]
    /\ month' = month + 1
    /\ bpc' = "month"
    /\ UNCHANGED <<loadvars, inputs, papers, pp, at, cachevars, counts, out, cur, month_papers,
                   paper_count, queried, raised>>

RunEndMonth ==
    /\ prog = "run"
    /\ \/ bpc = "end"
       \/ bpc = "loop" /\ cur = 0 /\ NextIndex > Len(papers)
    /\ results' = (queried[Len(queried)].key :> ap_bucket(month_papers)) @@ results
    /\ performance' = [performance EXCEPT !.papers_found = @ + Len(month_papers)]
    /\ month' = month + 1
    /\ bpc' = "month"
    /\ UNCHANGED <<loadvars, inputs, papers, pp, at, cachevars, counts, out, cur, month_papers,
                   paper_count, queried, raised>>

(* Lines 956-963 *)
RunFinish ==
    /\ prog \in {"run", "pa"}
    /\ bpc = "month"
    /\ month = months_back
    /\ bpc' = "done"
    /\ UNCHANGED <<loadvars, inputs, papers, pp, at, cachevars, counts, out, loopvars, raised>>

InitRunWith(answers, cat, bases, monthsChoices, maxPapersChoices) ==
    /\ ImportDone
    /\ NoFields
    /\ workers = max_workers
    /\ prog = "run"
    /\ svc = answers
    /\ keyword_weights = KEYWORDS
    /\ catalog = cat
    /\ base_date \in bases
    /\ months_back \in monthsChoices
    /\ max_papers \in maxPapersChoices
    /\ batch_size = 0
    /\ papers = <<>>
    /\ pp = <<>>
    /\ at = <<>>
    /\ HINDEX_CACHE \in CacheChoices
    /\ CACHE_FILE = HINDEX_CACHE
    /\ counts = NewCounts
    /\ out = <<>>
    /\ bpc = "month"
    /\ month = 0
    /\ cur = 0
    /\ month_papers = <<>>
    /\ paper_count = 0
    /\ results = <<>>
    /\ performance = NoPerformance
    /\ queried = <<>>
    /\ raised = 0

NextRun ==
    \/ RunBeginMonth
    \/ RunTakePaper
    \/ \E i \in DOMAIN pp : \E a \in DOMAIN at[i] : Resolve(i, a)
    \/ \E i \in DOMAIN pp : \E a \in DOMAIN at[i] : Respond(i, a)
    \/ \E i \in DOMAIN pp : FinishPaper(i)
    \/ RunCollect
    \/ RunFetchRaise
    \/ RunEndMonth
    \/ RunFinish

----------------------------------------------------------------------------
(* paper_analyzer.py *)

(* The (authors, h_index) pairs whose total, an exact half of a hundredth, the      *)
(* binary64 evaluation of line 159 and round(total_score, 2) round up; the other    *)
(* halves round down.  Tabulated for up to 5 authors and every h_index of 40..99.   *)
FloatHalfUp ==
    {<<10, 41>>, <<4, 43>>, <<7, 43>>, <<9, 43>>, <<8, 45>>, <<9, 45>>,
     <<4, 47>>, <<7, 47>>, <<10, 47>>, <<7, 49>>, <<9, 49>>, <<10, 49>>,
     <<12, 49>>, <<2, 51>>, <<5, 51>>, <<9, 51>>, <<4, 53>>, <<8, 53>>,
     <<9, 53>>, <<4, 55>>, <<7, 55>>, <<10, 55>>, <<4, 57>>, <<9, 57>>,
     <<5, 59>>, <<8, 59>>, <<9, 59>>, <<4, 61>>, <<7, 61>>, <<10, 61>>,
     <<4, 63>>, <<6, 63>>, <<7, 63>>, <<9, 63>>, <<10, 63>>, <<2, 65>>,
     <<9, 65>>, <<8, 67>>, <<9, 67>>, <<4, 69>>, <<7, 69>>, <<10, 69>>,
     <<6, 71>>, <<7, 71>>, <<9, 71>>, <<12, 71>>, <<2, 73>>, <<5, 73>>,
     <<8, 73>>, <<9, 73>>, <<4, 75>>, <<5, 75>>, <<7, 75>>, <<0, 77>>,
     <<3, 77>>, <<4, 77>>, <<6, 77>>, <<7, 77>>, <<10, 77>>, <<3, 79>>,
     <<4, 79>>, <<9, 79>>, <<10, 79>>, <<2, 81>>, <<5, 81>>, <<8, 81>>,
     <<9, 81>>, <<4, 83>>, <<7, 83>>, <<10, 83>>, <<3, 85>>, <<4, 85>>,
     <<9, 85>>, <<10, 85>>, <<2, 87>>, <<5, 87>>, <<8, 87>>, <<9, 87>>,
     <<1, 89>>, <<2, 89>>, <<4, 89>>, <<8, 89>>, <<9, 89>>, <<0, 91>>,
     <<3, 91>>, <<4, 91>>, <<7, 91>>, <<10, 91>>, <<0, 93>>, <<6, 93>>,
     <<7, 93>>, <<9, 93>>, <<12, 93>>, <<2, 95>>, <<5, 95>>, <<8, 95>>,
     <<9, 95>>, <<4, 97>>, <<7, 97>>, <<10, 97>>, <<0, 99>>, <<3, 99>>,
     <<4, 99>>, <<6, 99>>, <<7, 99>>, <<9, 99>>, <<10, 99>>}

(* Lines 152-159 and 173-178; counter is the record's position among those dispatched *)
pa_process_paper(paper, counter) ==
    LET n == Len(paper.authors)
        h_index == 40 + (counter % 60)
        halves == 560 + 14 * n + 3 * h_index
    IN  [idx |-> counter + 1,
         relevance_score |-> 400 + 10 * n,
         h_index |-> h_index,
         published |-> paper.published,
         total_score |->
            IF halves % 2 = 0 THEN halves \div 2
            ELSE IF <<n, h_index>> \in FloatHalfUp THEN (halves + 1) \div 2
            ELSE (halves - 1) \div 2]

PANoRow ==
    [idx |-> 0, relevance_score |-> 0, h_index |-> 0, published |-> NoDate,
     total_score |-> 0]

PAQueued == [pc |-> "queued", ok |-> FALSE, row |-> PANoRow]

DateNum(date) == strftime_Ymd(date)

(* Lines 222-225 *)
RECURSIVE date_filter(_, _)
date_filter(all_results, w) ==
    IF all_results = <<>> THEN <<>>
    ELSE (IF /\ DateNum(w.start) <= DateNum(Head(all_results).published)
             /\ DateNum(Head(all_results).published) < DateNum(w.end)
          THEN <<Head(all_results)>> ELSE <<>>)
         \o date_filter(Tail(all_results), w)

over_fetch == 5

pa_current_window == pa_window(get_month_range(base_date, months_back)[month + 1])

(* Lines 184-240: the query, the fetch, the date filter, the pool and its tasks.   *)
(* ThreadPoolExecutor(max_workers=0) raises ValueError, which nothing catches.     *)
PABeginMonth ==
    /\ prog = "pa"
    /\ bpc = "month"
    /\ month < months_back
    /\ queried' = Append(queried, pa_current_window)
    /\ \E es \in catalog :
        /\ Len(es) <= max_papers * over_fetch
        /\ LET found == date_filter([i \in DOMAIN es |-> publish(es[i], pa_current_window)],
                                    pa_current_window)
           IN  /\ papers' = found
               /\ pp' = [i \in DOMAIN Take(found, max_papers) |-> PAQueued]
               /\ at' = [i \in DOMAIN Take(found, max_papers) |-> <<>>]
               /\ bpc' = IF Min(batch_size, Len(found)) = 0 THEN "crashed" ELSE "pool"
    /\ month_papers' = <<>>
    /\ UNCHANGED <<loadvars, inputs, cachevars, counts, out, month, cur, paper_count,
                   results, performance, raised>>

(* Line 204: the index raises; main() has no handler *)
PAFetchRaise ==
    /\ prog = "pa"
    /\ bpc = "month"
    /\ month < months_back
    /\ queried' = Append(queried, pa_current_window)
    /\ bpc' = "crashed"
    /\ UNCHANGED <<loadvars, inputs, papers, pp, at, cachevars, counts, out, month, cur,
                   month_papers, paper_count, results, performance, raised>>

PARunning == {i \in DOMAIN pp : pp[i].pc = "running"}

(* A pool worker takes the next submitted task *)
PAStart(i) ==
    /\ prog = "pa"
    /\ bpc = "pool"
    /\ pp[i].pc = "queued"
    /\ \A j \in 1..(i - 1) : pp[j].pc # "queued"
    /\ Cardinality(PARunning) < Min(batch_size, Len(papers))
    /\ pp' = [pp EXCEPT ![i].pc = "running"]
    /\ UNCHANGED <<loadvars, inputs, papers, at, cachevars, counts, out, bpc, loopvars, raised>>

(* Lines 243-254: the task ends and as_completed hands it to the collecting loop *)
PAComplete(i) ==
    /\ prog = "pa"
    /\ bpc = "pool"
    /\ pp[i].pc = "running"
    /\ IF papers[i].bad
       THEN /\ pp' = [pp EXCEPT ![i] = [pc |-> "done", ok |-> FALSE, row |-> PANoRow]]
            /\ month_papers' = month_papers
            /\ raised' = raised + 1
       ELSE LET data == pa_process_paper(papers[i], i - 1)
            IN  /\ pp' = [pp EXCEPT ![i] = [pc |-> "done", ok |-> TRUE, row |-> data]]
                /\ month_papers' = Append(month_papers, data)
                /\ raised' = raised
    /\ UNCHANGED <<loadvars, inputs, papers, at, cachevars, counts, out, bpc, month, cur,
                   paper_count, results, performance, queried>>

pa_bucket(rows, found, limit) ==
    LET processed_papers == Take(sort_desc(rows), limit)
    IN  [papers |-> processed_papers,
         papers_found |-> Len(found),
         papers_processed |-> Len(processed_papers)]

(* Lines 256-276 and 291 *)
(* A variant that builds the bucket without waiting for the pool *)
PAEndMonth_early ==
    /\ prog = "pa"
    /\ bpc = "pool"
    /\ results' = (queried[Len(queried)].key :> pa_bucket(month_papers, papers, max_papers))
                    @@ results
    /\ month' = month + 1
    /\ bpc' = "month"
    /\ UNCHANGED <<loadvars, inputs, papers, pp, at, cachevars, counts, out, cur, month_papers,
                   paper_count, performance, queried, raised>>

PAEndMonth ==
    /\ prog = "pa"
    /\ bpc = "pool"
    /\ \A i \in DOMAIN pp : pp[i].pc = "done"
    /\ results' = (queried[Len(queried)].key :> pa_bucket(month_papers, papers, max_papers))
                    @@ results
    /\ month' = month + 1
    /\ bpc' = "month"
    /\ UNCHANGED <<loadvars, inputs, papers, pp, at, cachevars, counts, out, cur, month_papers,
                   paper_count, performance, queried, raised>>

InitPAWith(cat, bases, monthsChoices, maxPapersChoices, batchChoices) ==
    /\ ImportDone
    /\ NoFields
    /\ workers = max_workers
    /\ prog = "pa"
    /\ svc = {}
    /\ keyword_weights = KEYWORDS
    /\ catalog = cat
    /\ base_date \in bases
    /\ months_back \in monthsChoices
    /\ max_papers \in maxPapersChoices
    /\ batch_size \in batchChoices
    /\ papers = <<>>
    /\ pp = <<>>
    /\ at = <<>>
    /\ HINDEX_CACHE = <<>>
    /\ CACHE_FILE = <<>>
    /\ counts = NewCounts
    /\ out = <<>>
    /\ bpc = "month"
    /\ month = 0
    /\ cur = 0
    /\ month_papers = <<>>
    /\ paper_count = 0
    /\ results = <<>>
    /\ performance = NoPerformance
    /\ queried = <<>>
    /\ raised = 0

NextPA ==
    \/ PABeginMonth
    \/ PAFetchRaise
    \/ \E i \in DOMAIN pp : PAStart(i)
    \/ \E i \in DOMAIN pp : PAComplete(i)
    \/ PAEndMonth
    \/ RunFinish

----------------------------------------------------------------------------
(* The runs checked *)

MaxFetch == 2
MaxMonths == 2
MaxPapers == 2

BaseDate == Date(2024, 4, 14)

RunCatalog == SeqsUpTo(Entries(SeqsUpTo(Names, 1), Texts, {"in"}), MaxFetch)

PACatalog ==
    SeqsUpTo(Entries(SeqsUpTo({"a1"}, MaxAuthors), {<<"AI">>}, {"in", "after"}), MaxFetch)

Init ==
    \/ InitBatch
    \/ InitRunWith(Responses, RunCatalog, {BaseDate}, 1..MaxMonths, 1..MaxPapers)
    \/ InitPAWith(PACatalog, {BaseDate}, 1..MaxMonths, 1..MaxPapers, 1..MaxPapers)

NextMonths == NextRun \/ NextPA

Next == NextBatch \/ NextMonths

Spec == Init /\ [][Next]_vars

(* The two worker pools, process_papers_batch and paper_analyzer.py, with their     *)
(* threads running: a step that can be taken is eventually taken                  *)
PoolRecords == RecordsOf({<<>>, <<"a1">>}, {NoDate})

PoolCatalog == SeqsUpTo(Entries({<<"a1">>}, {<<"AI">>}, {"in"}), MaxFetch)

InitPool ==
    \/ /\ keyword_weights = KEYWORDS
       /\ \E ps \in SeqsUpTo(PoolRecords, MaxBatch) : InitBatchWith(ps, <<>>, Responses)
    \/ InitPAWith(PoolCatalog, {BaseDate}, 1..MaxMonths, 1..MaxPapers, 1..MaxPapers)

NextPool == NextBatch \/ NextPA

SpecFair == InitPool /\ [][NextPool]_vars /\ WF_vars(NextPool)

(* process_papers_batch on two records, over several keyword tables: the default  *)
(* one, and one in which a keyword has a negative weight                          *)
KeywordTables == {KEYWORDS, ("ai" :> 4) @@ ("survey" :> -2)}

MaxWords == 2

ScoreTexts == SeqsUpTo({"ai", "survey"}, MaxWords)

ScoreRecords ==
    {[authors |-> a, text |-> t, bad |-> FALSE, published |-> NoDate] :
        a \in {<<>>, <<"a1">>}, t \in ScoreTexts}

InitScore ==
    /\ keyword_weights \in KeywordTables
    /\ \E ps \in [1..MaxBatch -> ScoreRecords] :
        InitBatchWith(ps, <<>>, {[kind |-> "ok", h |-> 3]})

SpecScore == InitScore /\ [][NextBatch]_vars

(* paper_analyzer.py on records of one author and of eleven *)
CrowdAuthors == 11

CrowdCatalog ==
    SeqsUpTo(Entries({<<"a1">>, [a \in 1..CrowdAuthors |-> "a1"]}, {<<"AI">>}, {"in"}),
             MaxFetch)

InitCrowd == InitPAWith(CrowdCatalog, {BaseDate}, {1}, 1..MaxPapers, 1..MaxPapers)

SpecCrowd == InitCrowd /\ [][NextPA]_vars

(* Runs of up to three windows from several base dates, over a small index *)
WindowMonths == 3

BaseDates == {Date(2024, 4, 14), Date(2024, 3, 31), Date(2024, 1, 31)}

WindowCatalog == SeqsUpTo(Entries({<<"a1">>}, {<<"AI">>}, {"in", "late"}), 1)

InitWindows ==
    \/ InitRunWith(Responses, WindowCatalog, BaseDates, 1..WindowMonths, {1})
    \/ InitPAWith(WindowCatalog, BaseDates, 1..WindowMonths, {1}, {1})

SpecWindows == InitWindows /\ [][NextMonths]_vars

(* paper_analyzer.py on one window of six records, each of one or two authors *)
TieLen == 6

TieEntries == Entries({<<"a1">>, <<"a1", "a1">>}, {<<"AI">>}, {"in"})

TieCatalog == {es \in [1..TieLen -> TieEntries] :
                \A i \in 2..(TieLen - 1) : ~es[i].bad /\ Len(es[i].authors) = 1}

InitTie == InitPAWith(TieCatalog, {BaseDate}, {1}, {TieLen}, {1, 2})

SpecTie == InitTie /\ [][NextPA]_vars

----------------------------------------------------------------------------
(* Properties *)

LastKey == queried[Len(queried)].key

(* A window has just been closed: papers, pp and at still describe its records *)
WindowClosed == bpc = "month" /\ month > 0 /\ LastKey \in DOMAIN results

LastBucket == results[LastKey].papers

(* The rows are handed over: process_papers_batch has returned, or a window is closed *)
Collected == bpc = "returned" \/ WindowClosed

Delivered == IF bpc = "returned" THEN out ELSE LastBucket

Threads == {ia \in {<<i, a>> : i \in DOMAIN at, a \in 1..AuthorLimit} :
                ia[2] \in DOMAIN at[ia[1]]}

Succeeded == {i \in DOMAIN pp : pp[i].pc = "done" /\ pp[i].ok}

InBucket(i) == \E j \in DOMAIN Delivered : Delivered[j].idx = i

(* The records of the window that were retrieved, are in the window and do not raise *)
Eligible == {i \in DOMAIN papers :
                ~papers[i].bad /\ (prog = "pa" \/ pp[i].pc # "queued")}

(* The total_score of record i, computed if the code never did *)
RowScore(i) ==
    IF i \in Succeeded THEN pp[i].row.total_score
    ELSE pa_process_paper(papers[i], i - 1).total_score

(* C1: at no time are more reputation queries in flight than the capacity of      *)
(* API_SEMAPHORE (10), however many records are processed in parallel.            *)
C1_InFlightWithinCapacity == InFlight <= API_SEMAPHORE

(* C2: in every bucket, adjacent rows are in descending order of total_score, and *)
(* rows of equal total_score are in the order of their retrieval.                 *)
C2_BucketOrdered ==
    \A k \in DOMAIN results :
        \A j \in 1..(Len(results[k].papers) - 1) :
            LET r1 == results[k].papers[j]
                r2 == results[k].papers[j + 1]
            IN  \/ r1.total_score > r2.total_score
                \/ r1.total_score = r2.total_score /\ r1.idx < r2.idx

C4_ErrorsCounted == bpc = "returned" => counts.errors = raised

(* The h_index an author thread is to contribute: 0 once its lookup has failed *)
SettledH(t) == IF t.answer \in {"malformed", "nodata", "raise"} THEN 0 ELSE t.h

(* C5: an author whose lookup failed (no usable data, a malformed match, an       *)
(* exception) is resolved with h_index 0 and adds nothing to the author score of  *)
(* its record, and the record still yields a row.                                 *)
C5_FailedLookupIsZero ==
    \A ia \in Threads :
        LET t == at[ia[1]][ia[2]]
        IN  (t.pc = "done" /\ t.answer \in {"malformed", "nodata", "raise"}) =>
                /\ t.h = 0
                /\ pp[ia[1]].pc = "done" =>
                    /\ pp[ia[1]].ok
                    /\ pp[ia[1]].row.author_score =
                        round2(author_score_of(SumOver(DOMAIN at[ia[1]],
                            [a \in DOMAIN at[ia[1]] |-> SettledH(at[ia[1]][a])])))

(* C6: a name that is in the known-author table and in the cache is resolved with *)
(* the table's h_index, flagged prominent, without a query.                       *)
C6_KnownListFirst ==
    \A ia \in Threads :
        LET t == at[ia[1]][ia[2]]
            author_name == papers[ia[1]].authors[ia[2]]
        IN  (/\ t.pc = "done"
             /\ author_name \in DOMAIN prominent_authors
             /\ author_name \in DOMAIN HINDEX_CACHE) =>
                t.h = prominent_authors[author_name] /\ t.prominent /\ ~t.asked

C6_Witness ==
    \E ia \in Threads :
        LET author_name == papers[ia[1]].authors[ia[2]]
        IN  /\ at[ia[1]][ia[2]].pc = "done"
            /\ author_name \in DOMAIN prominent_authors
            /\ author_name \in DOMAIN HINDEX_CACHE
            /\ HINDEX_CACHE[author_name] # prominent_authors[author_name]

(* C7: for base date 2024-04-14 and 3 months the windows are, in order,           *)
(* [2024-03-01, 2024-04-01), [2024-02-01, 2024-03-01), [2024-01-01, 2024-02-01),  *)
(* with keys 2024-03, 2024-02, 2024-01.                                           *)
C7_WindowsOfApril14 ==
    (bpc = "done" /\ base_date = Date(2024, 4, 14) /\ months_back = 3) =>
        /\ Len(queried) = 3
        /\ \A k \in 1..3 :
            /\ queried[k].key = 202404 - k
            /\ queried[k].start = Date(2024, 4 - k, 1)
            /\ queried[k].end = Date(2024, 5 - k, 1)

(* C8: no day is matched by the date filters of two windows, and each window ends *)
(* where the next more recent one starts.                                         *)
C8_WindowsDisjoint ==
    \A j, k \in DOMAIN queried :
        j < k =>
            /\ queried[k].last_day < queried[j].first_day
            /\ k = j + 1 => queried[k].end = queried[j].start

(* C9: the bucket of a closed window holds the min(max_papers, n) best of the n   *)
(* records that were retrieved, lie in the window and do not raise: each of its   *)
(* rows is the row of one of them, and none that was left out has a strictly      *)
(* higher total_score than one that is in.                                        *)
C9_BucketIsTop ==
    WindowClosed =>
        /\ Len(LastBucket) = Min(max_papers, Cardinality(Eligible))
        /\ \A j \in DOMAIN LastBucket :
            \E i \in Eligible : LastBucket[j] = pp[i].row /\ LastBucket[j].idx = i
        /\ \A i \in Eligible :
            ~InBucket(i) =>
                \A j \in DOMAIN LastBucket : RowScore(i) <= LastBucket[j].total_score

(* C10: every bucket holds at most max_papers rows, there is one bucket per       *)
(* window closed, and a finished run holds months_back buckets of distinct keys.  *)
C10_BucketsBounded ==
    /\ \A k \in DOMAIN results : Len(results[k].papers) <= max_papers
    /\ prog \in {"run", "pa"} => Cardinality(DOMAIN results) = month
    /\ bpc = "done" => Cardinality(DOMAIN results) = months_back

C10_Witness ==
    /\ bpc = "done"
    /\ months_back = 2
    /\ \E k \in DOMAIN results : Len(results[k].papers) = max_papers

(* C11: every row of the bucket of a closed window belongs to a record published  *)
(* on or after the window's start and before its end.                             *)
C11_RowsInsideWindow ==
    WindowClosed =>
        \A j \in DOMAIN LastBucket :
            LET d == papers[LastBucket[j].idx].published
                w == queried[Len(queried)]
            IN  DateNum(w.start) <= DateNum(d) /\ DateNum(d) < DateNum(w.end)

(* The records the index returned for the window (those inside it, for             *)
(* paper_analyzer.py), and those of them that were handed to process_paper        *)
Retrieved ==
    IF prog = "pa" THEN Len(papers)
    ELSE Cardinality({i \in DOMAIN pp : pp[i].pc # "queued"})

Dispatched == Cardinality({i \in DOMAIN pp : pp[i].pc # "queued"})

(* The per-record error count the code keeps: the counts dictionary of            *)
(* process_paper; paper_analyzer.py keeps none                                    *)
ReportedErrors == IF prog = "pa" THEN 0 ELSE counts.errors

(* C12: for the first window of a run, closed without a failure of the fetch, the *)
(* count found is the number of records retrieved, and it is the number of rows   *)
(* plus the errors counted plus the records never dispatched.                     *)
C12_CountersAccount ==
    (WindowClosed /\ month = 1 /\ performance.errors = 0) =>
        /\ results[LastKey].papers_found = Retrieved
        /\ results[LastKey].papers_found =
                Len(LastBucket) + ReportedErrors + (Retrieved - Dispatched)

(* C13: no run ends on an exception of a window: whatever the fetch or the setup  *)
(* of a window does, the run goes on to the next window.                          *)
C13_RunSurvives == bpc # "crashed"

(* The rows gathered so far by the caller of process_paper *)
Gathered == IF prog = "batch" THEN out ELSE month_papers

(* Record i has been handed to process_paper and its call has not ended *)
Pending(i) ==
    /\ i \in DOMAIN pp
    /\ pp[i].pc # "done"
    /\ bpc \in {"running", "pool", "loop"}
    /\ prog = "run" => pp[i].pc # "queued"

Ended(i) == i \in DOMAIN pp /\ pp[i].pc = "done"

(* C14: every record handed to process_paper eventually ends, as a row or as a    *)
(* logged failure; and when the rows of a batch or of a window are handed over,   *)
(* every record dispatched has ended, its row gathered unless it raised.          *)
C14_EveryRecordEnds ==
    /\ [](Collected =>
            \A i \in DOMAIN pp :
                \/ prog = "run" /\ pp[i].pc = "queued"
                \/ /\ pp[i].pc = "done"
                   /\ IF pp[i].ok
                      THEN \E j \in DOMAIN Gathered : Gathered[j] = pp[i].row
                      ELSE papers[i].bad)
    /\ \A i \in 1..(MaxBatch + MaxPapers) : Pending(i) ~> Ended(i)

C14_Witness ==
    /\ bpc = "returned"
    /\ \E i, k \in DOMAIN pp : pp[i].ok /\ ~pp[k].ok /\ papers[k].bad

(* C15: with the service answering h-index 50 for every author, every row has     *)
(* author_score 2.5 and total_score 0.7 * relevance + 0.75.                       *)
C15_FiftyGivesHalf ==
    (svc = {[kind |-> "ok", h |-> 50]}) =>
        \A i \in Succeeded :
            /\ pp[i].row.author_score = 250
            /\ pp[i].row.total_score =
                round2((7 * calculate_score(papers[i].text, keyword_weights)) \div 10
                       + 750000)

(* C16: the total_score of every row is 0.7 * relevance + 0.3 * author score of   *)
(* the unrounded sub-scores of its record, rounded to two decimals; in            *)
(* paper_analyzer.py the author score is h_index / 100 * 5.                       *)
C16_TotalIsWeightedSum ==
    \A i \in Succeeded :
        IF prog = "pa"
        THEN 10 * pp[i].row.total_score
                - (7 * pp[i].row.relevance_score + 3 * 5 * pp[i].row.h_index)
                    \in -5..5
        ELSE 100000 * pp[i].row.total_score
                - (7 * calculate_score(papers[i].text, keyword_weights)
                   + 3 * paper_author_score(at[i]))
                    \in -50000..50000

C16_Witness ==
    \E i \in Succeeded :
        /\ prog = "run"
        /\ pp[i].row.relevance_score > 0
        /\ pp[i].row.author_score > pp[i].row.relevance_score

(* Text t has every keyword of the table at least as often as text s *)
MatchesGrow(s, t) ==
    \A k \in DOMAIN keyword_weights : CountMatches(k, s) <= CountMatches(k, t)

(* C17: the relevance_score of every row lies in [0, 5], and of two rows under    *)
(* the same keyword table, the one whose text has every keyword at least as       *)
(* often as the other has a relevance_score at least as high.                     *)
C17_RelevanceBoundedMonotone ==
    /\ \A i \in Succeeded : pp[i].row.relevance_score \in 0..500
    /\ \A i, k \in Succeeded :
        MatchesGrow(papers[i].text, papers[k].text) =>
            pp[i].row.relevance_score <= pp[k].row.relevance_score

(* C18: in every row the relevance score and the author score (h_index / 100 * 5  *)
(* in paper_analyzer.py) lie in [0, 5], and so does the total_score.              *)
C18_SubScoresClamped ==
    \A i \in Succeeded :
        /\ pp[i].row.relevance_score \in 0..500
        /\ pp[i].row.total_score \in 0..500
        /\ IF prog = "pa" THEN 5 * pp[i].row.h_index \in 0..500
           ELSE pp[i].row.author_score \in 0..500

(* C19: two rows of a window whose records have the same text and the same        *)
(* authors have the same relevance_score and, in paper_analyzer.py where no       *)
(* service is asked, the same h_index and total_score.                            *)
C19_SameRecordSameScore ==
    \A i, k \in Succeeded :
        (papers[i].text = papers[k].text /\ papers[i].authors = papers[k].authors) =>
            /\ pp[i].row.relevance_score = pp[k].row.relevance_score
            /\ prog = "pa" =>
                /\ pp[i].row.h_index = pp[k].row.h_index
                /\ pp[i].row.total_score = pp[k].row.total_score

AuthorOf(ia) == papers[ia[1]].authors[ia[2]]

(* Thread x has ended a lookup that the service answered with a usable record *)
LookedUp(x) ==
    /\ at[x[1]][x[2]].pc = "done"
    /\ at[x[1]][x[2]].answer = "ok"
    /\ AuthorOf(x) \notin DOMAIN prominent_authors

(* C20: once a lookup of a name outside the known-author table has succeeded, the *)
(* name is in the cache, and a thread that resolves the same name afterwards      *)
(* ends at once, without a query, with the h_index of that lookup.                *)
C20_LookupIsCached ==
    [][\A x, y \in Threads :
        (/\ LookedUp(x)
         /\ AuthorOf(y) = AuthorOf(x)
         /\ at[y[1]][y[2]].pc = "idle"
         /\ at'[y[1]][y[2]].pc # "idle") =>
            /\ AuthorOf(x) \in DOMAIN HINDEX_CACHE
            /\ at'[y[1]][y[2]].pc = "done"
            /\ ~at'[y[1]][y[2]].asked
            /\ at'[y[1]][y[2]].h = at[x[1]][x[2]].h]_vars

----------------------------------------------------------------------------
(* The persisted cache file *)

(* Every entry of the cache is in the file as last written *)
Flushed ==
    \A n \in DOMAIN HINDEX_CACHE :
        n \in DOMAIN CACHE_FILE /\ CACHE_FILE[n] = HINDEX_CACHE[n]

(* C21: when a run of analyze_papers has ended, every entry that the run put in   *)
(* the reputation cache is in the cache file.                                     *)
C21_CacheFlushedAtEnd == (prog = "run" /\ bpc = "done") => Flushed

----------------------------------------------------------------------------
(* The loaders called by several threads, before and after a first load *)

InitConfig ==
    /\ NoFields
    /\ workers = max_workers
    /\ prog = "load"
    /\ svc = {}
    /\ keyword_weights = KEYWORDS
    /\ catalog = {}
    /\ base_date = NoDate
    /\ months_back = 0
    /\ max_papers = 0
    /\ batch_size = 0
    /\ papers = <<>>
    /\ pp = <<>>
    /\ at = <<>>
    /\ HINDEX_CACHE = <<>>
    /\ CACHE_FILE = <<>>
    /\ counts = NewCounts
    /\ out = <<>>
    /\ bpc = "load"
    /\ month = 0
    /\ cur = 0
    /\ month_papers = <<>>
    /\ paper_count = 0
    /\ results = <<>>
    /\ performance = NoPerformance
    /\ queried = <<>>
    /\ raised = 0
    /\ config_files \in [Loaders -> {"absent", "unparseable", "custom"}]
    /\ config_caches = [f \in Loaders |-> None]
    /\ lru = None
    /\ callers = [t \in 1..MaxCallers |-> IdleCaller]
    /\ finished = [f \in Loaders |-> 0]

SpecConfig == InitConfig /\ [][NextConfig]_vars

(* The calls of loader f made before any call of f had returned *)
FirstWave(f) == {t \in DOMAIN callers : callers[t].f = f /\ callers[t].first}

(* C22: of the calls of a loader made before its first load has completed, at    *)
(* most one reads the backing file or writes the default one, and those that     *)
(* have returned have all returned the same table.                               *)
C22_LoadedOnce ==
    \A f \in Loaders :
        /\ Cardinality({t \in FirstWave(f) : callers[t].touched}) <= 1
        /\ \A t, u \in FirstWave(f) :
            (callers[t].pc = "idle" /\ callers[u].pc = "idle") =>
                callers[t].ret = callers[u].ret

(* A call of loader f has returned the minimal table: its load failed *)
FailedBefore(f) ==
    \E u \in DOMAIN callers :
        callers[u].pc = "idle" /\ callers[u].f = f /\ callers[u].ret = "minimal"

(* C23: a failed load is not memoized: while no load of the loader has succeeded, *)
(* a call made after a failed one enters the loader and attempts the load again   *)
(* instead of being answered from a memo.                                        *)
C23_FailureNotMemoized ==
    [][\A t \in DOMAIN callers : \A f \in Loaders :
        (/\ callers[t].pc = "idle"
         /\ callers'[t].calls = callers[t].calls + 1
         /\ callers'[t].f = f
         /\ FailedBefore(f)
         /\ config_caches[f] = None) =>
            callers'[t].pc = "check"]_vars

(* C24: processing a record resolves the reputation of its first author only: no *)
(* thread of a second or later author sends a query to the service.              *)
C24_OnlyFirstAuthorQueried ==
    \A x \in Threads : x[2] >= 2 => ~at[x[1]][x[2]].asked

----------------------------------------------------------------------------
(* Records whose authors are written otherwise than in the known-author table *)

AliasNames == {"Yoshua Bengio", "yoshua bengio", "Prof. Yoshua Bengio", "a1"}

(* known_author.lower() in author.lower(), tabulated over AliasNames: the entry  *)
(* of the known-author table that a name contains, whatever the case             *)
known_match ==
    ("Yoshua Bengio" :> "Yoshua Bengio") @@ ("yoshua bengio" :> "Yoshua Bengio")
        @@ ("Prof. Yoshua Bengio" :> "Yoshua Bengio")

AliasRecords ==
    {[authors |-> a, text |-> <<"AI">>, bad |-> FALSE, published |-> NoDate] :
        a \in SeqsUpTo(AliasNames, 1)}

InitAlias ==
    /\ keyword_weights = KEYWORDS
    /\ \E ps \in SeqsUpTo(AliasRecords, MaxBatch) :
        \E cache \in {<<>>, ("yoshua bengio" :> 9)} :
            InitBatchWith(ps, cache, Responses)

SpecAlias == InitAlias /\ [][NextBatch]_vars

(* C25: a thread whose author name contains an entry of the known-author table,  *)
(* in any case, ends with the record of that table: it is marked prominent, has  *)
(* the h_index of the entry, and has sent no query.                              *)
C25_KnownMatchIsResolvedFromTable ==
    \A x \in Threads :
        (AuthorOf(x) \in DOMAIN known_match /\ at[x[1]][x[2]].pc # "idle") =>
            /\ at[x[1]][x[2]].prominent
            /\ ~at[x[1]][x[2]].asked
            /\ at[x[1]][x[2]].h = prominent_authors[known_match[AuthorOf(x)]]

----------------------------------------------------------------------------
(* Summary bullets *)

MaxSegments == 4

(* An abstract is a sequence of segments of text free of ". " and of newlines.    *)
(* A segment has len characters, of which the last pad are blanks; term says      *)
(* whether it contains one of novel, propose, improve, develop, achieve,          *)
(* experiment, result; sep is what separates it from the next segment: ". "       *)
(* ("dot") or a newline ("nl").                                                   *)
Segments ==
    {[len |-> l[1], pad |-> l[2], term |-> t, sep |-> s] :
        l \in {<<8, 0>>, <<21, 0>>, <<21, 1>>}, t \in BOOLEAN, s \in {"dot", "nl"}}

Abstracts == UNION {[1..k -> Segments] : k \in 1..MaxSegments}

(* str.split: the runs of segments between two separators of kind sep *)
RECURSIVE split(_, _, _)
split(summary, sep, from) ==
    IF from > Len(summary) THEN <<>>
    ELSE LET to == CHOOSE j \in from..Len(summary) :
                        /\ j = Len(summary) \/ summary[j].sep = sep
                        /\ \A k \in from..(j - 1) : summary[k].sep # sep
         IN  <<[from |-> from, to |-> to]>> \o split(summary, sep, to + 1)

has_term(summary, piece) == \E k \in piece.from..piece.to : summary[k].term

(* len(s) of a piece whose inner separators are join characters wide *)
piece_len(summary, piece, join) ==
    SumOver(piece.from..piece.to, [k \in DOMAIN summary |-> summary[k].len])
        + join * (piece.to - piece.from)

(* s.strip() takes the blanks at the end of the piece away *)
strip(summary, piece, join) ==
    [from |-> piece.from, to |-> piece.to,
     chars |-> piece_len(summary, piece, join) - summary[piece.to].pad,
     term |-> has_term(summary, piece)]

RECURSIVE non_empty(_)
non_empty(lines) ==
    IF lines = <<>> THEN <<>>
    ELSE (IF Head(lines).chars > 0 THEN <<Head(lines)>> ELSE <<>>) \o non_empty(Tail(lines))

(* analyze_papers.py lines 779-785: every line of the summary that is not blank *)
ap_summary_bullets(summary) ==
    LET lines == split(summary, "nl", 1)
    IN  non_empty([i \in DOMAIN lines |-> strip(summary, lines[i], 2)])

RECURSIVE key_sentences(_, _)
key_sentences(summary, pieces) ==
    IF pieces = <<>> THEN <<>>
    ELSE (IF piece_len(summary, Head(pieces), 1) > 20 /\ has_term(summary, Head(pieces))
          THEN <<Head(pieces)>> ELSE <<>>)
         \o key_sentences(summary, Tail(pieces))

(* paper_analyzer.py lines 116-120: the newlines become blanks, runs of blanks    *)
(* become one blank and the blanks at the end of the text are dropped             *)
safe_html_decode(summary) ==
    [k \in DOMAIN summary |->
        IF k = Len(summary) \/ summary[k].sep = "nl"
        THEN [summary[k] EXCEPT !.len = @ - summary[k].pad, !.pad = 0]
        ELSE summary[k]]

(* paper_analyzer.py lines 136 and 143-144: the pieces of split('. ') that are    *)
(* longer than 20 characters and hold a term, the first three of them, stripped   *)
pa_summary_bullets(text) ==
    LET summary == safe_html_decode(text)
        summary_sentences == split(summary, "dot", 1)
        kept == Take(key_sentences(summary, summary_sentences), 3)
    IN  [i \in DOMAIN kept |-> strip(summary, kept[i], 1)]

(* process_paper of either program on one record: its summary_bullets *)
MakeBullets ==
    /\ prog \in {"ap_bullets", "pa_bullets"}
    /\ bpc = "running"
    /\ out' = IF prog = "ap_bullets" THEN ap_summary_bullets(papers[1])
              ELSE pa_summary_bullets(papers[1])
    /\ bpc' = "returned"
    /\ UNCHANGED <<loadvars, inputs, papers, pp, at, cachevars, counts, loopvars, raised>>

InitBullets ==
    /\ ImportDone
    /\ NoFields
    /\ workers = max_workers
    /\ prog \in {"ap_bullets", "pa_bullets"}
    /\ svc = {}
    /\ keyword_weights = KEYWORDS
    /\ catalog = {}
    /\ base_date = NoDate
    /\ months_back = 0
    /\ max_papers = 0
    /\ batch_size = 0
    /\ papers \in {<<s>> : s \in Abstracts}
    /\ pp = <<>>
    /\ at = <<>>
    /\ HINDEX_CACHE = <<>>
    /\ CACHE_FILE = <<>>
    /\ counts = NewCounts
    /\ out = <<>>
    /\ bpc = "running"
    /\ month = 0
    /\ cur = 0
    /\ month_papers = <<>>
    /\ paper_count = 0
    /\ results = <<>>
    /\ performance = NoPerformance
    /\ queried = <<>>
    /\ raised = 0

SpecBullets == InitBullets /\ [][MakeBullets]_vars

(* The sentences of the abstract: the pieces of the normalized text between ". " *)
Sentences(text) ==
    LET summary == safe_html_decode(text)
        pieces == split(summary, "dot", 1)
    IN  [i \in DOMAIN pieces |-> strip(summary, pieces[i], 1)]

RECURSIVE KeySentences(_)
KeySentences(sentences) ==
    IF sentences = <<>> THEN <<>>
    ELSE (IF Head(sentences).chars > 20 /\ Head(sentences).term
          THEN <<Head(sentences)>> ELSE <<>>)
         \o KeySentences(Tail(sentences))

(* C26: the summary bullets of a row are the first sentences of the abstract,    *)
(* three at most and in their order, that are longer than 20 characters and      *)
(* contain one of the terms.                                                     *)
C26_BulletsAreKeySentences ==
    bpc = "returned" /\ prog \in {"ap_bullets", "pa_bullets"} =>
        LET wanted == Take(KeySentences(Sentences(papers[1])), 3)
        IN  /\ Len(out) = Len(wanted)
            /\ \A i \in DOMAIN out :
                /\ out[i].from = wanted[i].from
                /\ out[i].to = wanted[i].to
                /\ out[i].chars > 20
                /\ out[i].term

----------------------------------------------------------------------------
(* paper_analyzer.construct_search_query *)

max_title_terms == 10

MaxFields == 2
MaxQueries == 3

(* DEFAULT_KEYWORDS['title_terms'][:max_title_terms] *)
default_title_terms ==
    {"machine learning", "deep learning", "neural network", "artificial intelligence",
     "ai", "natural language processing", "nlp", "computer vision",
     "reinforcement learning", "transformer"}

SeqRange(s) == {s[i] : i \in DOMAIN s}

FieldLists ==
    SeqsUpTo({"ai", "robotics", "quantum"}, MaxFields)
        \cup {<<"robotics", "quantum", "biology", "physics", "chemistry", "geology">>}

(* set(DEFAULT_KEYWORDS['title_terms'][:max_title_terms] + fields[:5]) *)
merged_terms(fs) == default_title_terms \cup SeqRange(Take(fs, 5))

(* list(set(...))[:max_title_terms]: the order of a set of strings follows their  *)
(* hashes, which the interpreter draws anew for each process; the disjunction is  *)
(* kept as the set of its terms                                                   *)
all_title_terms(fs, tail) == merged_terms(fs) \ tail

(* Lines 70-104: the query of a window *)
construct_search_query(fs, month_date) ==
    [title_terms |-> all_title_terms(fs, beyond_cap),
     first_day |-> pa_window(month_date).first_day,
     last_day |-> pa_window(month_date).last_day]

ConstructQuery(k) ==
    /\ prog = "query"
    /\ Len(queried) < MaxQueries
    /\ queried' = Append(queried,
                         construct_search_query(fields,
                                                get_month_range(base_date, months_back)[k]))
    /\ UNCHANGED <<loadvars, inputs, papers, pp, at, cachevars, counts, out, bpc, month,
                   cur, month_papers, paper_count, results, performance, raised>>

NextQuery == \E k \in 1..months_back : ConstructQuery(k)

InitQuery ==
    /\ ImportDone
    /\ workers = max_workers
    /\ prog = "query"
    /\ svc = {}
    /\ keyword_weights = KEYWORDS
    /\ catalog = {}
    /\ base_date = BaseDate
    /\ months_back = MaxMonths
    /\ max_papers = 0
    /\ batch_size = 0
    /\ fields \in FieldLists
    /\ beyond_cap \in {tail \in SUBSET merged_terms(fields) :
                        Cardinality(merged_terms(fields) \ tail)
                            = Min(max_title_terms, Cardinality(merged_terms(fields)))}
    /\ papers = <<>>
    /\ pp = <<>>
    /\ at = <<>>
    /\ HINDEX_CACHE = <<>>
    /\ CACHE_FILE = <<>>
    /\ counts = NewCounts
    /\ out = <<>>
    /\ bpc = "running"
    /\ month = 0
    /\ cur = 0
    /\ month_papers = <<>>
    /\ paper_count = 0
    /\ results = <<>>
    /\ performance = NoPerformance
    /\ queried = <<>>
    /\ raised = 0

SpecQuery == InitQuery /\ [][NextQuery]_vars

(* C27: the title terms of a query are at most 10, hold every one of the first 5 *)
(* fields of the user and at least one default term, and two queries built for   *)
(* the same fields and window are the same.                                     *)
C27_QueryHoldsFields ==
    prog = "query" =>
        /\ \A q \in DOMAIN queried :
            /\ Cardinality(queried[q].title_terms) <= max_title_terms
            /\ SeqRange(Take(fields, 5)) \subseteq queried[q].title_terms
            /\ queried[q].title_terms \cap default_title_terms # {}
        /\ \A q, r \in DOMAIN queried :
            queried[q].first_day = queried[r].first_day => queried[q] = queried[r]

----------------------------------------------------------------------------
(* process_papers_batch with a cache that is one or two entries short of a save *)

FlushNames == {"a1", "a2"}

FlushRecords ==
    {[authors |-> a, text |-> <<"AI">>, bad |-> FALSE, published |-> NoDate] :
        a \in SeqsUpTo(FlushNames, MaxAuthors) \ {<<>>}}

(* A cache of n entries under names that no record uses *)
CachedNames ==
    <<"c01", "c02", "c03", "c04", "c05", "c06", "c07", "c08", "c09", "c10",
      "c11", "c12", "c13", "c14", "c15", "c16", "c17", "c18", "c19">>

cache_of(n) == [c \in {CachedNames[k] : k \in 1..n} |-> 1]

InitFlush ==
    /\ keyword_weights = KEYWORDS
    /\ \E ps \in SeqsUpTo(FlushRecords, MaxBatch) :
        \E n \in {SaveEvery - 2, SaveEvery - 1} :
            InitBatchWith(ps, cache_of(n), {[kind |-> "ok", h |-> 3],
                                           [kind |-> "nodata", h |-> 0]})

NextFlush ==
    \/ NextBatch
    \/ \E i \in DOMAIN pp : \E a \in DOMAIN at[i] : SaveCache(i, a)

SpecFlush == InitFlush /\ [][NextFlush]_vars

Saving == {x \in Threads : at[x[1]][x[2]].pc = "saving"}

(* C28: the cache is written and flushed under one lock: while a thread is       *)
(* flushing the cache to its file, no step of another thread changes the cache.  *)
C28_NoWriteDuringFlush ==
    [][Saving # {} => HINDEX_CACHE' = HINDEX_CACHE]_vars

----------------------------------------------------------------------------
(* The two worker pools with fewer workers than records *)

WorkerRecords == RecordsOf({<<"a1">>, <<"Yoshua Bengio">>}, {NoDate})

InitWorkers ==
    \/ /\ keyword_weights = KEYWORDS
       /\ \E ps \in SeqsUpTo(WorkerRecords, MaxBatch + 1) : \E pool \in 1..MaxBatch :
            InitBatchPool(ps, <<>>, {[kind |-> "ok", h |-> 3]}, pool)
    \/ InitPAWith(PoolCatalog, {BaseDate}, {1}, 1..MaxPapers, 1..MaxPapers)

SpecWorkers == InitWorkers /\ [][NextPool]_vars

----------------------------------------------------------------------------
(* process_papers_batch with a service that answers with error statuses *)

InitStatus ==
    /\ keyword_weights = KEYWORDS
    /\ \E ps \in SeqsUpTo(PaperRecords, MaxBatch) :
        InitBatchWith(ps, <<>>, StatusResponses)

SpecStatus == InitStatus /\ [][NextBatch]_vars

(* Retry(total=5) of get_session *)
retry_total == 5

(* The requests a thread has sent: the one of line 559, if it got that far *)
requests_sent(t) == IF t.asked THEN 1 ELSE 0

(* C31: a lookup that was answered with a transient status has ended only after  *)
(* its retries, 5, were used up; one answered with another error status has      *)
(* ended after its one request; both end with the default record.                *)
C31_TransientIsRetried ==
    \A x \in Threads :
        LET t == at[x[1]][x[2]]
        IN  /\ (t.pc = "done" /\ t.answer = "transient") =>
                (requests_sent(t) = 1 + retry_total /\ t.h = 0)
            /\ (t.pc = "done" /\ t.answer = "rejected") =>
                (requests_sent(t) = 1 /\ t.h = 0)

----------------------------------------------------------------------------
(* paper_analyzer.get_month_range over ranges longer than a year *)

MaxRange == 14

RangeBases ==
    {Date(2024, m, 15) : m \in 1..12} \cup {Date(2024, 1, 31), Date(2023, 12, 31)}

(* Lines 48-68: main's call of get_month_range *)
MonthRange ==
    /\ prog = "range"
    /\ bpc = "running"
    /\ out' = get_month_range(base_date, months_back)
    /\ bpc' = "returned"
    /\ UNCHANGED <<loadvars, inputs, papers, pp, at, cachevars, counts, loopvars, raised>>

InitRange ==
    /\ ImportDone
    /\ NoFields
    /\ workers = max_workers
    /\ prog = "range"
    /\ svc = {}
    /\ keyword_weights = KEYWORDS
    /\ catalog = {}
    /\ base_date \in RangeBases
    /\ months_back \in 1..MaxRange
    /\ max_papers = 0
    /\ batch_size = 0
    /\ papers = <<>>
    /\ pp = <<>>
    /\ at = <<>>
    /\ HINDEX_CACHE = <<>>
    /\ CACHE_FILE = <<>>
    /\ counts = NewCounts
    /\ out = <<>>
    /\ bpc = "running"
    /\ month = 0
    /\ cur = 0
    /\ month_papers = <<>>
    /\ paper_count = 0
    /\ results = <<>>
    /\ performance = NoPerformance
    /\ queried = <<>>
    /\ raised = 0

SpecRange == InitRange /\ [][MonthRange]_vars

(* The months from year 0 to the month of a date *)
MonthNumber(date) == 12 * date.y + date.m

(* C32: get_month_range returns `months` dates, each the first day of a month,   *)
(* the most recent first, each one calendar month before the one before it.      *)
C32_MonthRangeIsConsecutive ==
    (prog = "range" /\ bpc = "returned") =>
        /\ Len(out) = months_back
        /\ \A k \in DOMAIN out : out[k].d = 1 /\ out[k].m \in 1..12
        /\ \A k \in DOMAIN out :
            k > 1 => MonthNumber(out[k]) = MonthNumber(out[k - 1]) - 1

(* A range of more than twelve months that goes back over two year boundaries *)
C32_Witness ==
    /\ prog = "range"
    /\ bpc = "returned"
    /\ months_back > 12
    /\ out[Len(out)].y = out[1].y - 2

----------------------------------------------------------------------------
(* paper_analyzer.py with an index that always answers *)

NextQuiet ==
    \/ PABeginMonth
    \/ \E i \in DOMAIN pp : PAStart(i)
    \/ \E i \in DOMAIN pp : PAComplete(i)
    \/ PAEndMonth
    \/ RunFinish

InitQuiet == InitPAWith(PACatalog, {BaseDate}, 1..MaxMonths, 1..MaxPapers, 1..MaxPapers)

SpecQuiet == InitQuiet /\ [][NextQuiet]_vars

(* C33: a window of paper_analyzer.py in which no record is retrieved or passes   *)
(* the date filter does not raise, and its bucket has no papers, papers_found 0   *)
(* and papers_processed 0.                                                       *)
C33_EmptyWindowGivesEmptyBucket ==
    (prog = "pa" /\ Len(queried) > 0 /\ Len(papers) = 0) =>
        /\ bpc # "crashed"
        /\ Len(queried) = month =>
            /\ LastKey \in DOMAIN results
            /\ results[LastKey] =
                [papers |-> <<>>, papers_found |-> 0, papers_processed |-> 0]

(* C34: in one run, at most one query is sent to the service for an author name  *)
(* outside the known-author table, whatever number of threads resolve the name.  *)
C34_OneQueryPerName ==
    \A n \in Names \ DOMAIN prominent_authors :
        Cardinality({x \in Threads : AuthorOf(x) = n /\ at[x[1]][x[2]].asked}) <= 1

(* Thread x has ended a lookup with the given answer *)
EndedWith(x, answer) ==
    at[x[1]][x[2]].pc = "done" /\ at[x[1]][x[2]].answer = answer

(* C35: a lookup that ends in an exception leaves the cache as it was, and a     *)
(* resolution of the name that starts while the name is still out of the cache   *)
(* sends a query; a lookup answered with no results puts a zero placeholder in   *)
(* the cache, and a resolution of the name that starts afterwards sends none.    *)
C35_ExceptionLeavesCache ==
    [][\A x \in Threads :
        LET t == at[x[1]][x[2]]
            u == at'[x[1]][x[2]]
            n == AuthorOf(x)
        IN  /\ (t.pc = "query" /\ u.answer = "raise") => HINDEX_CACHE' = HINDEX_CACHE
            /\ (t.pc = "query" /\ u.answer = "nodata") =>
                (n \in DOMAIN HINDEX_CACHE' /\ HINDEX_CACHE'[n] = 0)
            /\ (t.pc = "idle" /\ u.pc # "idle" /\ n \notin DOMAIN prominent_authors) =>
                /\ ((\E y \in Threads : AuthorOf(y) = n /\ EndedWith(y, "raise"))
                        /\ n \notin DOMAIN HINDEX_CACHE) => u.pc = "query"
                /\ (\E y \in Threads : AuthorOf(y) = n /\ EndedWith(y, "nodata")) =>
                        (u.pc = "done" /\ ~u.asked)]_vars

(* A name was looked up three times: the first lookup raised, the second was     *)
(* answered with no results, the third was served from the cache                 *)
C35_Witness ==
    \E x, y, z \in Threads :
        /\ AuthorOf(x) = AuthorOf(y) /\ AuthorOf(y) = AuthorOf(z)
        /\ EndedWith(x, "raise")
        /\ EndedWith(y, "nodata")
        /\ at[z[1]][z[2]].pc = "done" /\ ~at[z[1]][z[2]].asked
        /\ AuthorOf(z) \notin DOMAIN prominent_authors
        /\ HINDEX_CACHE[AuthorOf(z)] = 0

(* C36: process_papers_batch returns the rows of the records that were processed *)
(* without failure, each once, in the order of the records in its input.         *)
C36_BatchKeepsInputOrder ==
    (prog = "batch" /\ bpc = "returned") =>
        /\ {out[j].idx : j \in DOMAIN out} = Succeeded
        /\ \A j \in DOMAIN out : out[j] = pp[out[j].idx].row
        /\ \A j, k \in DOMAIN out : j < k => out[j].idx < out[k].idx

(* Three records, the second of which failed: the rows of the first and third *)
C36_Witness ==
    /\ prog = "batch"
    /\ bpc = "returned"
    /\ Len(papers) = 3
    /\ papers[2].bad
    /\ Len(out) = 2
    /\ papers[1].authors # <<>>

====
